---- MODULE Spec2Model ----
(***************************************************************************)
(* Model of custom_image_utils/shell_script_generator.py.                  *)
(*                                                                         *)
(* Two specifications share this module:                                   *)
(*   Spec     the generated bash script (_template) executed by the runs   *)
(*            in Runs, concurrently, against one cloud project and one     *)
(*            local file system;                                           *)
(*   SpecGen  Generator.generate applied to a bounded set of option        *)
(*            mappings, followed by the script's IMAGE_SOURCE selection.   *)
(***************************************************************************)
EXTENDS Integers, Sequences, FiniteSets, TLC

VARIABLES
  \* ---- the generated script (Spec) ----
  pc,          \* pc[r]: the command run r executes next
  image_name,  \* image_name[r]: the {image_name} rendered into r's script
  upIdx,       \* upIdx[r]: index i of the upload loop of main
  fs,          \* local file system: path -> content (lines); DOMAIN = existing paths
  gcs,         \* objects in the bucket (set of paths)
  disks,       \* cloud disks: name -> creating run, or NoRun when the name is free
  instances,   \* cloud VM instances: name -> creating run, or NoRun
  images,      \* cloud images: name -> creating run, or NoRun
  mainStatus,  \* mainStatus[r]: exit status of the subshell running main (-1: not ended)
  exitCode,    \* exitCode[r]: exit status of the script (-1: still running)
  branch,      \* branch[r]: the arm of exit_handler's if/elif chosen from the markers
  \* ---- history of the execution (observations only) ----
  handlerRuns, \* handlerRuns[r]: number of times exit_handler was entered
  issued,      \* issued[r]: deletion commands exit_handler invoked
  delFailed,   \* delFailed[r]: a deletion command of exit_handler failed
  synced,      \* synced[r]: the gsutil rsync of exit_handler was invoked
  created,     \* created[r]: resources whose create command succeeded in run r
  removed,     \* removed: [by, kind, owner] resources removed by a run's cleanup
  access,      \* access: <<r, path>> paths read or written by run r
  imageCmd,    \* imageCmd[r]: the image-creation command was invoked
  \* ---- the generator (SpecGen) ----
  args,        \* the options mapping handed to Generator.generate (mutated in place)
  result,      \* what generate returned or raised
  image_source, \* IMAGE_SOURCE as set by the rendered script
  options,     \* the options as the caller first supplied them
  history      \* one entry per call of generate: its outcome and args after it

vars == <<pc, image_name, upIdx, fs, gcs, disks, instances, images, mainStatus,
          exitCode, branch, handlerRuns, issued, delFailed, synced, created,
          removed, access, imageCmd, args, result, image_source, options,
          history>>

scriptVars == <<pc, image_name, upIdx, fs, gcs, disks, instances, images,
                mainStatus, exitCode, branch, handlerRuns, issued, delFailed,
                synced, created, removed, access, imageCmd>>

genVars == <<args, result, image_source, options, history>>

----------------------------------------------------------------------------
(* Bounds *)

\* longest serial-port output (in lines) the tail command delivers
MaxLines == 1

\* largest number of entries of extra_sources
MaxExtras == 2

\* longest source name or path (in characters) drawn for the quoting check
MaxStrLen == 2

\* largest number of calls of generate on one set of options
MaxCalls == 2

----------------------------------------------------------------------------
(* The generated script: parameters *)

\* the concurrently executing scripts, named by their (distinct) run_id
Runs == {"runA", "runB"}

NoRun == "none"

\* values of {image_name}
ImageNames == {"img1", "img2"}

\* {run_id} of run r
run_id(r) == r

\* {image_name}-install : the installation disk and the installation VM
InstallName(r) == <<image_name[r], "-install">>

\* /tmp/{run_id}/<file>
TmpPath_ByImageName(r, file) == <<"/tmp", image_name[r], file>>

TmpPath(r, file) == <<"/tmp", run_id(r), file>>

\* {log_dir} = /tmp/{run_id}/logs
log_dir(r) == TmpPath(r, "logs")

\* {log_dir}/<file>
LogPath(r, file) == <<"/tmp", run_id(r), "logs", file>>

\* {custom_sources_path}/<key> = gs://{bucket_name}/{run_id}/sources/<key>
SourcesPath(r, key) == <<"gs://", run_id(r), "sources", key>>

\* {gcs_log_dir}/<file> = gs://{bucket_name}/{run_id}/logs/<file>
GcsLogPath(r, file) == <<"gs://", run_id(r), "logs", file>>

\* keys of the sources_k array of the two fixed sources
SourceKeys == <<"run.sh", "init_actions.sh">>

\* exit status with which gcloud, gsutil, mkdir and tee report a failure
CmdFailCodes == {1}

InstallNames == {<<n, "-install">> : n \in ImageNames}

\* a line of serial-port output: does it contain 'startup-script',
\* 'BuildFailed:', 'BuildSucceeded:'
Lines == [tag : BOOLEAN, failed : BOOLEAN, succeeded : BOOLEAN]

RECURSIVE SeqsUpTo(_, _)
SeqsUpTo(S, n) ==
  IF n = 0 THEN {<<>>}
  ELSE LET shorter == SeqsUpTo(S, n - 1)
       IN  shorter \cup {Append(s, x) : s \in {t \in shorter : Len(t) = n - 1}, x \in S}

SerialOutputs == SeqsUpTo(Lines, MaxLines)

----------------------------------------------------------------------------
(* File system and shell helpers *)

Exists(path) == path \in DOMAIN fs

\* the file system after writing content to path
Written(path, content) ==
  [p \in DOMAIN fs \cup {path} |-> IF p = path THEN content ELSE fs[p]]

\* touch: creates an empty file, keeps an existing one
Touched(path) == IF Exists(path) THEN fs ELSE Written(path, <<>>)

\* grep 'startup-script' : keeps the lines containing the pattern
RECURSIVE GrepLines(_, _)
GrepLines(field, lines) ==
  IF lines = <<>> THEN <<>>
  ELSE LET rest == GrepLines(field, Tail(lines))
       IN  IF Head(lines)[field] THEN <<Head(lines)>> \o rest ELSE rest

\* exit status of grep <pattern> <file>: 0 when some line matches,
\* 1 when none does, 2 when the file does not exist
GrepStatus(field, path) ==
  IF ~Exists(path) THEN 2
  ELSE IF GrepLines(field, fs[path]) # <<>> THEN 0 ELSE 1

Touch(S, r, path) == S \cup {<<r, path>>}

Set(f, r, v) == [f EXCEPT ![r] = v]

\* trap exit_handler EXIT : what the shell runs when it receives sig
TrapAction_NoTrap(sig) == "none"

TrapAction(sig) == IF sig = "EXIT" THEN "exit_handler" ELSE "none"

\* The top-level shell of run r exits with status st (set -e after a failed
\* command, or the end of the script): the EXIT trap, when set, runs first.
ShellExit(r, st) ==
  IF TrapAction("EXIT") = "exit_handler"
  THEN pc' = Set(pc, r, "exit_handler") /\ UNCHANGED exitCode
  ELSE pc' = Set(pc, r, "done") /\ exitCode' = Set(exitCode, r, st)

\* main runs as the first command of a pipeline, hence in a subshell, which
\* does not inherit the EXIT trap: exit (or set -e) ends the subshell only.
MainExit(r, st) ==
  /\ pc' = Set(pc, r, "pipe_end")
  /\ mainStatus' = Set(mainStatus, r, st)

----------------------------------------------------------------------------
(* The generated script: top level and main *)

\* trap exit_handler EXIT; mkdir -p {log_dir}
Mkdir(r) ==
  /\ pc[r] = "mkdir"
  /\ access' = Touch(access, r, log_dir(r))
  /\ \/ /\ fs' = Touched(log_dir(r))
        /\ pc' = Set(pc, r, "upload")
        /\ UNCHANGED exitCode
     \/ /\ \E st \in CmdFailCodes : ShellExit(r, st)
        /\ UNCHANGED fs
  /\ UNCHANGED <<image_name, upIdx, gcs, disks, instances, images, mainStatus,
                 branch, handlerRuns, issued, delFailed, synced, created,
                 removed, imageCmd, genVars>>

\* for i in "${!sources_k[@]}": the loop has gone through every index
UploadDone_OffByOne(i) == i >= Len(SourceKeys)

UploadDone(i) == i > Len(SourceKeys)

\* for i in "${!sources_k[@]}"; do gsutil cp ... ; done
Upload(r) ==
  /\ pc[r] = "upload"
  /\ IF UploadDone(upIdx[r])
     THEN /\ pc' = Set(pc, r, "disk_create")
          /\ UNCHANGED <<upIdx, gcs, access, mainStatus>>
     ELSE LET dst == SourcesPath(r, SourceKeys[upIdx[r]])
          IN  /\ access' = Touch(access, r, dst)
              /\ \/ /\ gcs' = gcs \cup {dst}
                    /\ upIdx' = Set(upIdx, r, upIdx[r] + 1)
                    /\ UNCHANGED <<pc, mainStatus>>
                 \/ /\ \E st \in CmdFailCodes : MainExit(r, st)
                    /\ UNCHANGED <<gcs, upIdx>>
  /\ UNCHANGED <<image_name, fs, disks, instances, images, exitCode, branch,
                 handlerRuns, issued, delFailed, synced, created, removed,
                 imageCmd, genVars>>

\* the marker file touched after the creation of the disk, the VM, the image
MarkerOf_Swapped(step) ==
  CASE step = "disk" -> "vm_created"
    [] step = "vm" -> "disk_created"
    [] step = "image" -> "image_created"

MarkerOf(step) ==
  CASE step = "disk" -> "disk_created"
    [] step = "vm" -> "vm_created"
    [] step = "image" -> "image_created"

\* gcloud compute disks create {image_name}-install ...
DiskCreate(r) ==
  /\ pc[r] = "disk_create"
  /\ \/ /\ disks[InstallName(r)] = NoRun
        /\ disks' = Set(disks, InstallName(r), r)
        /\ created' = Set(created, r, created[r] \cup {"disk"})
        /\ pc' = Set(pc, r, "touch_disk")
        /\ UNCHANGED mainStatus
     \/ /\ \E st \in CmdFailCodes : MainExit(r, st)
        /\ UNCHANGED <<disks, created>>
  /\ UNCHANGED <<image_name, upIdx, fs, gcs, instances, images, exitCode,
                 branch, handlerRuns, issued, delFailed, synced, removed,
                 access, imageCmd, genVars>>

\* touch "/tmp/{run_id}/disk_created"
TouchDisk(r) ==
  /\ pc[r] = "touch_disk"
  /\ fs' = Touched(TmpPath(r, MarkerOf("disk")))
  /\ access' = Touch(access, r, TmpPath(r, MarkerOf("disk")))
  /\ pc' = Set(pc, r, "vm_create")
  /\ UNCHANGED <<image_name, upIdx, gcs, disks, instances, images, mainStatus,
                 exitCode, branch, handlerRuns, issued, delFailed, synced,
                 created, removed, imageCmd, genVars>>

\* gcloud compute instances create {image_name}-install
\*     --disk=auto-delete=yes,boot=yes,mode=rw,name={image_name}-install ...
InstanceCreate(r) ==
  /\ pc[r] = "vm_create"
  /\ \/ /\ instances[InstallName(r)] = NoRun
        /\ disks[InstallName(r)] # NoRun
        /\ instances' = Set(instances, InstallName(r), r)
        /\ created' = Set(created, r, created[r] \cup {"vm"})
        /\ pc' = Set(pc, r, "touch_vm")
        /\ UNCHANGED mainStatus
     \/ /\ \E st \in CmdFailCodes : MainExit(r, st)
        /\ UNCHANGED <<instances, created>>
  /\ UNCHANGED <<image_name, upIdx, fs, gcs, disks, images, exitCode, branch,
                 handlerRuns, issued, delFailed, synced, removed, access,
                 imageCmd, genVars>>

\* touch /tmp/{run_id}/vm_created
TouchVm(r) ==
  /\ pc[r] = "touch_vm"
  /\ fs' = Touched(TmpPath(r, MarkerOf("vm")))
  /\ access' = Touch(access, r, TmpPath(r, MarkerOf("vm")))
  /\ pc' = Set(pc, r, "tail")
  /\ UNCHANGED <<image_name, upIdx, gcs, disks, instances, images, mainStatus,
                 exitCode, branch, handlerRuns, issued, delFailed, synced,
                 created, removed, imageCmd, genVars>>

\* gcloud compute instances tail-serial-port-output ... 2>&1
\*     | grep 'startup-script' | tee {log_dir}/startup-script.log || true
TailSerial(r) ==
  /\ pc[r] = "tail"
  /\ \E out \in SerialOutputs :
       fs' = Written(LogPath(r, "startup-script.log"), GrepLines("tag", out))
  /\ access' = Touch(access, r, LogPath(r, "startup-script.log"))
  /\ pc' = Set(pc, r, "check")
  /\ UNCHANGED <<image_name, upIdx, gcs, disks, instances, images, mainStatus,
                 exitCode, branch, handlerRuns, issued, delFailed, synced,
                 created, removed, imageCmd, genVars>>

\* if grep 'BuildFailed:' ...; then exit 1
\* elif grep 'BuildSucceeded:' ...; then (proceed) else exit 1; fi
ResultCheck_SucceededFirst(failedStatus, succeededStatus) ==
  IF succeededStatus = 0 THEN "succeeded"
  ELSE IF failedStatus = 0 THEN "failed" ELSE "undetermined"

ResultCheck(failedStatus, succeededStatus) ==
  IF failedStatus = 0 THEN "failed"
  ELSE IF succeededStatus = 0 THEN "succeeded" ELSE "undetermined"

CheckResult(r) ==
  /\ pc[r] = "check"
  /\ access' = Touch(access, r, LogPath(r, "startup-script.log"))
  /\ LET verdict == ResultCheck(
                      GrepStatus("failed", LogPath(r, "startup-script.log")),
                      GrepStatus("succeeded", LogPath(r, "startup-script.log")))
     IN  IF verdict = "succeeded"
         THEN pc' = Set(pc, r, "image_create") /\ UNCHANGED mainStatus
         ELSE MainExit(r, 1)
  /\ UNCHANGED <<image_name, upIdx, fs, gcs, disks, instances, images,
                 exitCode, branch, handlerRuns, issued, delFailed, synced,
                 created, removed, imageCmd, genVars>>

\* gcloud compute images create {image_name} --source-disk={image_name}-install ...
ImageCreate(r) ==
  /\ pc[r] = "image_create"
  /\ imageCmd' = Set(imageCmd, r, TRUE)
  /\ \/ /\ images[image_name[r]] = NoRun
        /\ disks[InstallName(r)] # NoRun
        /\ images' = Set(images, image_name[r], r)
        /\ created' = Set(created, r, created[r] \cup {"image"})
        /\ pc' = Set(pc, r, "touch_image")
        /\ UNCHANGED mainStatus
     \/ /\ \E st \in CmdFailCodes : MainExit(r, st)
        /\ UNCHANGED <<images, created>>
  /\ UNCHANGED <<image_name, upIdx, fs, gcs, disks, instances, exitCode,
                 branch, handlerRuns, issued, delFailed, synced, removed,
                 access, genVars>>

\* touch /tmp/{run_id}/image_created ; main returns
TouchImage(r) ==
  /\ pc[r] = "touch_image"
  /\ fs' = Touched(TmpPath(r, MarkerOf("image")))
  /\ access' = Touch(access, r, TmpPath(r, MarkerOf("image")))
  /\ MainExit(r, 0)
  /\ UNCHANGED <<image_name, upIdx, gcs, disks, instances, images, exitCode,
                 branch, handlerRuns, issued, delFailed, synced, created,
                 removed, imageCmd, genVars>>

\* main "$@" 2>&1 | tee {log_dir}/workflow.log : the pipeline ends; under
\* pipefail its status is non-zero when main or tee failed, and the script
\* exits (set -e, or its last command has run)
PipeEnd(r) ==
  /\ pc[r] = "pipe_end"
  /\ fs' = Touched(LogPath(r, "workflow.log"))
  /\ access' = Touch(access, r, LogPath(r, "workflow.log"))
  /\ \E teeStatus \in {0} \cup CmdFailCodes :
       ShellExit(r, IF teeStatus # 0 THEN teeStatus ELSE mainStatus[r])
  /\ UNCHANGED <<image_name, upIdx, gcs, disks, instances, images, mainStatus,
                 branch, handlerRuns, issued, delFailed, synced, created,
                 removed, imageCmd, genVars>>

----------------------------------------------------------------------------
(* The generated script: exit_handler *)

\* if [[ -f /tmp/{run_id}/vm_created ]]; then (delete the VM instance)
\* elif [[ -f /tmp/{run_id}/disk_created ]]; then (delete the disk) fi
CleanupBranch_DiskFirst(vmMarker, diskMarker) ==
  IF diskMarker THEN "disk" ELSE IF vmMarker THEN "instance" ELSE "none"

CleanupBranch_NoElif(vmMarker, diskMarker) ==
  IF vmMarker THEN "instance" ELSE "none"

CleanupBranch(vmMarker, diskMarker) ==
  IF vmMarker THEN "instance" ELSE IF diskMarker THEN "disk" ELSE "none"

\* a command of exit_handler fails: set -e ends the shell with the command's
\* status; the EXIT trap is not run again from within itself
HandlerAbort(r, st) ==
  /\ pc' = Set(pc, r, "done")
  /\ exitCode' = Set(exitCode, r, st)

\* exit_handler is entered; its if / elif tests the markers
HandlerEnter(r) ==
  /\ pc[r] = "exit_handler"
  /\ handlerRuns' = Set(handlerRuns, r, handlerRuns[r] + 1)
  /\ LET vm == Exists(TmpPath(r, "vm_created"))
         b  == CleanupBranch(vm, Exists(TmpPath(r, "disk_created")))
     IN  /\ branch' = Set(branch, r, b)
         /\ access' = access \cup {<<r, TmpPath(r, "vm_created")>>}
                        \cup (IF vm THEN {} ELSE {<<r, TmpPath(r, "disk_created")>>})
         /\ pc' = Set(pc, r, IF b = "none" THEN "h_sync" ELSE "h_delete")
  /\ UNCHANGED <<image_name, upIdx, fs, gcs, disks, instances, images,
                 mainStatus, exitCode, issued, delFailed, synced, created,
                 removed, imageCmd, genVars>>

\* gcloud compute instances delete {image_name}-install ... -q
\* (the boot disk is attached with auto-delete=yes and goes with the instance)
InstanceDelete(r) ==
  /\ pc[r] = "h_delete"
  /\ branch[r] = "instance"
  /\ issued' = Set(issued, r, issued[r] \cup {"instances delete"})
  /\ LET n == InstallName(r)
     IN  \/ /\ instances[n] # NoRun
            /\ instances' = Set(instances, n, NoRun)
            /\ disks' = Set(disks, n, NoRun)
            /\ removed' = removed
                 \cup {[by |-> r, kind |-> "vm", owner |-> instances[n]]}
                 \cup (IF disks[n] = NoRun THEN {}
                       ELSE {[by |-> r, kind |-> "disk", owner |-> disks[n]]})
            /\ pc' = Set(pc, r, "h_sync")
            /\ UNCHANGED <<exitCode, delFailed>>
         \/ /\ \E st \in CmdFailCodes : HandlerAbort(r, st)
            /\ delFailed' = Set(delFailed, r, TRUE)
            /\ UNCHANGED <<instances, disks, removed>>
  /\ UNCHANGED <<image_name, upIdx, fs, gcs, images, mainStatus, branch,
                 handlerRuns, synced, created, access, imageCmd, genVars>>

\* gcloud compute disks delete {image_name}-install ... -q
\* (the cloud refuses to delete a disk that is attached to an instance)
DiskDelete(r) ==
  /\ pc[r] = "h_delete"
  /\ branch[r] = "disk"
  /\ issued' = Set(issued, r, issued[r] \cup {"disks delete"})
  /\ LET n == InstallName(r)
     IN  \/ /\ disks[n] # NoRun
            /\ instances[n] = NoRun
            /\ disks' = Set(disks, n, NoRun)
            /\ removed' = removed
                 \cup {[by |-> r, kind |-> "disk", owner |-> disks[n]]}
            /\ pc' = Set(pc, r, "h_sync")
            /\ UNCHANGED <<exitCode, delFailed>>
         \/ /\ \E st \in CmdFailCodes : HandlerAbort(r, st)
            /\ delFailed' = Set(delFailed, r, TRUE)
            /\ UNCHANGED <<disks, removed>>
  /\ UNCHANGED <<image_name, upIdx, fs, gcs, instances, images, mainStatus,
                 branch, handlerRuns, synced, created, access, imageCmd,
                 genVars>>

\* the files of {log_dir}
LogFiles(r) == {f \in {"startup-script.log", "workflow.log"} : Exists(LogPath(r, f))}

\* gsutil -m rsync -r {log_dir}/ {gcs_log_dir}/
LogSync(r) ==
  /\ pc[r] = "h_sync"
  /\ synced' = Set(synced, r, TRUE)
  /\ access' = access \cup {<<r, log_dir(r)>>}
                 \cup {<<r, LogPath(r, f)>> : f \in LogFiles(r)}
                 \cup {<<r, GcsLogPath(r, f)>> : f \in LogFiles(r)}
  /\ \/ /\ Exists(log_dir(r))
        /\ gcs' = gcs \cup {GcsLogPath(r, f) : f \in LogFiles(r)}
        /\ pc' = Set(pc, r, "h_exit")
        /\ UNCHANGED exitCode
     \/ /\ \E st \in CmdFailCodes : HandlerAbort(r, st)
        /\ UNCHANGED gcs
  /\ UNCHANGED <<image_name, upIdx, fs, disks, instances, images, mainStatus,
                 branch, handlerRuns, issued, delFailed, created, removed,
                 imageCmd, genVars>>

\* if [[ -f /tmp/{run_id}/image_created ]]; then exit 0 else exit 1 fi
HandlerExit(r) ==
  /\ pc[r] = "h_exit"
  /\ access' = Touch(access, r, TmpPath(r, "image_created"))
  /\ exitCode' = Set(exitCode, r,
                     IF Exists(TmpPath(r, "image_created")) THEN 0 ELSE 1)
  /\ pc' = Set(pc, r, "done")
  /\ UNCHANGED <<image_name, upIdx, fs, gcs, disks, instances, images,
                 mainStatus, branch, handlerRuns, issued, delFailed, synced,
                 created, removed, imageCmd, genVars>>

----------------------------------------------------------------------------
(* Spec: the runs execute their scripts concurrently *)

NoResult ==
  [status |-> "none", in |-> "", type |-> "", key |-> "", text |-> << >>]

GenIdle ==
  /\ args = << >>
  /\ result = NoResult
  /\ image_source = << >>
  /\ options = << >>
  /\ history = << >>

\* Every run starts its script in a fresh /tmp/{run_id}; the cloud project
\* holds no installation disk, installation VM or image of these names.
Init ==
  /\ pc = [r \in Runs |-> "mkdir"]
  /\ image_name \in [Runs -> ImageNames]
  /\ upIdx = [r \in Runs |-> 1]
  /\ fs = << >>
  /\ gcs = {}
  /\ disks = [n \in InstallNames |-> NoRun]
  /\ instances = [n \in InstallNames |-> NoRun]
  /\ images = [n \in ImageNames |-> NoRun]
  /\ mainStatus = [r \in Runs |-> -1]
  /\ exitCode = [r \in Runs |-> -1]
  /\ branch = [r \in Runs |-> "none"]
  /\ handlerRuns = [r \in Runs |-> 0]
  /\ issued = [r \in Runs |-> {}]
  /\ delFailed = [r \in Runs |-> FALSE]
  /\ synced = [r \in Runs |-> FALSE]
  /\ created = [r \in Runs |-> {}]
  /\ removed = {}
  /\ access = {}
  /\ imageCmd = [r \in Runs |-> FALSE]
  /\ GenIdle

Next ==
  \E r \in Runs :
    \/ Mkdir(r)
    \/ Upload(r)
    \/ DiskCreate(r)
    \/ TouchDisk(r)
    \/ InstanceCreate(r)
    \/ TouchVm(r)
    \/ TailSerial(r)
    \/ CheckResult(r)
    \/ ImageCreate(r)
    \/ TouchImage(r)
    \/ PipeEnd(r)
    \/ HandlerEnter(r)
    \/ InstanceDelete(r)
    \/ DiskDelete(r)
    \/ LogSync(r)
    \/ HandlerExit(r)

Spec == Init /\ [][Next]_vars

\* every command of the script terminates, so a script that can take a step
\* eventually takes one
FairSpec == Spec /\ \A r \in Runs :
  WF_vars(Mkdir(r) \/ Upload(r) \/ DiskCreate(r) \/ TouchDisk(r)
          \/ InstanceCreate(r) \/ TouchVm(r) \/ TailSerial(r) \/ CheckResult(r)
          \/ ImageCreate(r) \/ TouchImage(r) \/ PipeEnd(r) \/ HandlerEnter(r)
          \/ InstanceDelete(r) \/ DiskDelete(r) \/ LogSync(r) \/ HandlerExit(r))

----------------------------------------------------------------------------
(* The generator: Python values and strings *)

\* A string is a sequence of tokens: the characters that matter to the shell
\* ("'", "\\", " ") are tokens of their own, other text comes in words.
\* A Python value is a record: t its type, s its text (for a dict, its items
\* in insertion order).
PyNone == [t |-> "none", s |-> << >>]

PyStr(s) == [t |-> "str", s |-> s]

PyBool(b) == [t |-> "bool", s |-> IF b THEN <<"True">> ELSE <<"False">>]

PyDict(items) == [t |-> "dict", s |-> items]

\* bool(v): None, '', False and {} are falsy
Truthy(v) ==
  CASE v.t = "none" -> FALSE
    [] v.t = "bool" -> v.s = <<"True">>
    [] OTHER        -> v.s # << >>

\* the text str.format substitutes for a value: str(None) is 'None'
Str(v) == IF v.t = "none" THEN <<"None">> ELSE v.s

\* str.replace(old, new) for a one-token old
RECURSIVE Replace(_, _, _)
Replace(str, old, new) ==
  IF str = << >> THEN << >>
  ELSE (IF Head(str) = old THEN new ELSE <<Head(str)>>)
         \o Replace(Tail(str), old, new)

\* sep.join(parts)
RECURSIVE Join(_, _)
Join(sep, parts) ==
  IF parts = << >> THEN << >>
  ELSE IF Len(parts) = 1 THEN parts[1]
  ELSE parts[1] \o sep \o Join(sep, Tail(parts))

\* token tok occurs in str
HasToken(str, tok) == \E i \in DOMAIN str : str[i] = tok

\* sub occurs in str as a contiguous run of tokens
Contains(str, sub) ==
  \E i \in 0..(Len(str) - Len(sub)) :
    \A j \in 1..Len(sub) : str[i + j] = sub[j]

NoErr == [type |-> "", key |-> ""]

\* the evaluation of _init_args: the mapping so far, and the exception raised
Raise(st, type, key) == [a |-> st.a, err |-> [type |-> type, key |-> key]]

Put(a, k, v) == [x \in DOMAIN a \cup {k} |-> IF x = k THEN v ELSE a[x]]

Assign(st, k, v) == [a |-> Put(st.a, k, v), err |-> st.err]

Has(st, k) == k \in DOMAIN st.a

\* an earlier statement raised: the statements after it do not run
Raised(st) == st.err # NoErr

----------------------------------------------------------------------------
(* Generator._init_args, statement by statement *)

\* if "run_id" not in self.args: run_id = "custom-image-{image_name}-{timestamp}"
ResolveRunId_Always(st, timestamp) ==
  IF ~Has(st, "image_name") THEN Raise(st, "KeyError", "image_name")
  ELSE Assign(st, "run_id",
              PyStr(<<"custom-image-">> \o Str(st.a["image_name"])
                      \o <<"-", timestamp>>))

ResolveRunId(st, timestamp) ==
  IF Has(st, "run_id") THEN st
  ELSE IF ~Has(st, "image_name") THEN Raise(st, "KeyError", "image_name")
  ELSE Assign(st, "run_id",
              PyStr(<<"custom-image-">> \o Str(st.a["image_name"])
                      \o <<"-", timestamp>>))

\* bucket_name = gcs_bucket.replace("gs://", "");
\* custom_sources_path = "gs://{bucket_name}/{run_id}/sources"
ResolveBucket_Default(st) ==
  IF Raised(st) THEN st ELSE
  LET bucket == IF Has(st, "gcs_bucket") /\ st.a["gcs_bucket"].t = "str"
                THEN Replace(st.a["gcs_bucket"].s, "gs://", << >>) ELSE << >>
  IN  Assign(Assign(st, "bucket_name", PyStr(bucket)),
             "custom_sources_path",
             PyStr(<<"gs://">> \o bucket \o <<"/">>
                     \o Str(st.a["run_id"]) \o <<"/sources">>))

ResolveBucket(st) ==
  IF Raised(st) THEN st ELSE
  IF ~Has(st, "gcs_bucket") THEN Raise(st, "KeyError", "gcs_bucket")
  ELSE IF st.a["gcs_bucket"].t # "str"
  THEN Raise(st, "AttributeError", "replace")
  ELSE LET bucket == Replace(st.a["gcs_bucket"].s, "gs://", << >>)
           s1     == Assign(st, "bucket_name", PyStr(bucket))
       IN  Assign(s1, "custom_sources_path",
                  PyStr(<<"gs://">> \o bucket \o <<"/">>
                          \o Str(st.a["run_id"]) \o <<"/sources">>))

\* dict.update(extra): an existing key keeps its position and takes the new
\* value, a new key is appended
DictUpdate_AppendAlways(items, extra) == items \o extra

RECURSIVE DictUpdate(_, _)
DictUpdate(items, extra) ==
  IF extra = << >> THEN items
  ELSE LET kv  == Head(extra)
           hit == {i \in DOMAIN items : items[i][1] = kv[1]}
       IN  DictUpdate(
             IF hit = {} THEN Append(items, kv)
             ELSE [i \in DOMAIN items |-> IF i \in hit THEN kv ELSE items[i]],
             Tail(extra))

\* "[{}]='{}'".format(i, text.replace("'", "'\\''"))
ArrayElement_NoEscape(i, text) ==
  <<"[", ToString(i), "]=", "'">> \o text \o <<"'">>

ArrayElement(i, text) ==
  <<"[", ToString(i), "]=", "'">>
    \o Replace(text, "'", <<"'", "\\", "'", "'">>) \o <<"'">>

\* " ".join(["[{}]='{}'".format(i, ...) for i, kv in enumerate(...)])
SourcesMap(texts) ==
  Join(<<" ">>, [i \in DOMAIN texts |-> ArrayElement(i - 1, texts[i])])

\* all_sources = {run.sh, init_actions.sh}; all_sources.update(extra_sources);
\* sources_map_k, sources_map_v. An item is <<key, value>>.
ResolveSources(st) ==
  IF Raised(st) THEN st ELSE
  IF ~Has(st, "customization_script")
  THEN Raise(st, "KeyError", "customization_script")
  ELSE IF ~Has(st, "extra_sources") THEN Raise(st, "KeyError", "extra_sources")
  ELSE IF st.a["extra_sources"].t # "dict" THEN Raise(st, "TypeError", "update")
  ELSE LET all_sources ==
             DictUpdate(<< << <<"run.sh">>, PyStr(<<"startup_script/run.sh">>) >>,
                           << <<"init_actions.sh">>, st.a["customization_script"] >> >>,
                        st.a["extra_sources"].s)
       IN  IF \E i \in DOMAIN all_sources : all_sources[i][2].t # "str"
           THEN Raise(Assign(st, "sources_map_k",
                             PyStr(SourcesMap([i \in DOMAIN all_sources |->
                                                all_sources[i][1]]))),
                      "AttributeError", "replace")
           ELSE Assign(Assign(st, "sources_map_k",
                              PyStr(SourcesMap([i \in DOMAIN all_sources |->
                                                 all_sources[i][1]]))),
                       "sources_map_v",
                       PyStr(SourcesMap([i \in DOMAIN all_sources |->
                                          all_sources[i][2].s])))

\* log_dir = "/tmp/{run_id}/logs"; gcs_log_dir = "gs://{bucket_name}/{run_id}/logs"
ResolveLogDirs(st) ==
  IF Raised(st) THEN st ELSE
  Assign(Assign(st, "log_dir",
                PyStr(<<"/tmp/">> \o Str(st.a["run_id"]) \o <<"/logs">>)),
         "gcs_log_dir",
         PyStr(<<"gs://">> \o Str(st.a["bucket_name"]) \o <<"/">>
                 \o Str(st.a["run_id"]) \o <<"/logs">>))

\* if subnetwork: subnetwork_flag = "--subnet=..", network_flag = ""
\* elif network:  network_flag = "--network=..", subnetwork_flag = ""
ResolveNetwork_Both(st) ==
  IF Raised(st) THEN st ELSE
  IF ~Has(st, "subnetwork") THEN Raise(st, "KeyError", "subnetwork")
  ELSE IF ~Has(st, "network") THEN Raise(st, "KeyError", "network")
  ELSE LET s1 == IF Truthy(st.a["subnetwork"]) \/ Truthy(st.a["network"])
                 THEN Assign(Assign(st, "subnetwork_flag", PyStr(<< >>)),
                             "network_flag", PyStr(<< >>))
                 ELSE st
           s2 == IF Truthy(st.a["subnetwork"])
                 THEN Assign(s1, "subnetwork_flag",
                             PyStr(<<"--subnet=">> \o Str(st.a["subnetwork"])))
                 ELSE s1
       IN  IF Truthy(st.a["network"])
           THEN Assign(s2, "network_flag",
                       PyStr(<<"--network=">> \o Str(st.a["network"])))
           ELSE s2

ResolveNetwork(st) ==
  IF Raised(st) THEN st ELSE
  IF ~Has(st, "subnetwork") THEN Raise(st, "KeyError", "subnetwork")
  ELSE IF Truthy(st.a["subnetwork"])
  THEN Assign(Assign(st, "subnetwork_flag",
                     PyStr(<<"--subnet=">> \o Str(st.a["subnetwork"]))),
              "network_flag", PyStr(<< >>))
  ELSE IF ~Has(st, "network") THEN Raise(st, "KeyError", "network")
  ELSE IF Truthy(st.a["network"])
  THEN Assign(Assign(st, "network_flag",
                     PyStr(<<"--network=">> \o Str(st.a["network"]))),
              "subnetwork_flag", PyStr(<< >>))
  ELSE st

\* if service_account: service_account_flag = "--service-account=.."
ResolveServiceAccount(st) ==
  IF Raised(st) THEN st ELSE
  IF ~Has(st, "service_account") THEN Raise(st, "KeyError", "service_account")
  ELSE IF Truthy(st.a["service_account"])
  THEN Assign(st, "service_account_flag",
              PyStr(<<"--service-account=">> \o Str(st.a["service_account"])))
  ELSE st

\* no_external_ip_flag = "--no-address" if no_external_ip else ""
ResolveNoExternalIp(st) ==
  IF Raised(st) THEN st ELSE
  IF ~Has(st, "no_external_ip") THEN Raise(st, "KeyError", "no_external_ip")
  ELSE Assign(st, "no_external_ip_flag",
              PyStr(IF Truthy(st.a["no_external_ip"])
                    THEN <<"--no-address">> ELSE << >>))

\* accelerator_flag = "--accelerator=.. --maintenance-policy terminate"
\*                    if accelerator else ""
ResolveAccelerator(st) ==
  IF Raised(st) THEN st ELSE
  IF ~Has(st, "accelerator") THEN Raise(st, "KeyError", "accelerator")
  ELSE Assign(st, "accelerator_flag",
              PyStr(IF Truthy(st.a["accelerator"])
                    THEN <<"--accelerator=">> \o Str(st.a["accelerator"])
                           \o <<" ", "--maintenance-policy", " ", "terminate">>
                    ELSE << >>))

\* storage_location_flag = "--storage-location=.." if storage_location else ""
ResolveStorageLocation(st) ==
  IF Raised(st) THEN st ELSE
  IF ~Has(st, "storage_location") THEN Raise(st, "KeyError", "storage_location")
  ELSE Assign(st, "storage_location_flag",
              PyStr(IF Truthy(st.a["storage_location"])
                    THEN <<"--storage-location=">> \o Str(st.a["storage_location"])
                    ELSE << >>))

\* metadata_flag = "--metadata=shutdown-timer-in-sec=..,custom-sources-path=.."
\*                 plus ",{metadata}" if metadata
ResolveMetadata(st) ==
  IF Raised(st) THEN st ELSE
  IF ~Has(st, "metadata") THEN Raise(st, "KeyError", "metadata")
  ELSE IF ~Has(st, "shutdown_timer_in_sec")
  THEN Raise(st, "KeyError", "shutdown_timer_in_sec")
  ELSE Assign(st, "metadata_flag",
              PyStr(<<"--metadata=", "shutdown-timer-in-sec=">>
                      \o Str(st.a["shutdown_timer_in_sec"])
                      \o <<",", "custom-sources-path=">>
                      \o Str(st.a["custom_sources_path"])
                      \o (IF Truthy(st.a["metadata"])
                          THEN <<",">> \o Str(st.a["metadata"]) ELSE << >>)))

\* Generator._init_args(args), with the clock reading used for run_id
_init_args(a, timestamp) ==
  ResolveMetadata(
    ResolveStorageLocation(
      ResolveAccelerator(
        ResolveNoExternalIp(
          ResolveServiceAccount(
            ResolveNetwork(
              ResolveLogDirs(
                ResolveSources(
                  ResolveBucket(
                    ResolveRunId([a |-> a, err |-> NoErr], timestamp))))))))))

----------------------------------------------------------------------------
(* _template and Generator.generate *)

L(text) == [k |-> "lit", v |-> text]

P(key) == [k |-> "ph", v |-> key]

\* function exit_handler() { ... }
TemplateExitHandler ==
  << L("#!/usr/bin/env bash"), L("set -euxo pipefail"),
     L("function exit_handler() {"),
     L("if [[ -f /tmp/"), P("run_id"), L("/vm_created ]]; then"),
     L("gcloud compute instances delete"), L(" "), P("image_name"), L("-install"),
     L(" "), L("--project="), P("project_id"), L(" "), L("--zone="), P("zone"),
     L(" "), L("-q"),
     L("elif [[ -f /tmp/"), P("run_id"), L("/disk_created ]]; then"),
     L("gcloud compute disks delete"), L(" "), P("image_name"), L("-install"),
     L(" "), L("--project="), P("project_id"), L(" "), L("--zone="), P("zone"),
     L(" "), L("-q"), L("fi"),
     L("gsutil -m rsync -r"), L(" "), P("log_dir"), L("/"), L(" "),
     P("gcs_log_dir"), L("/"),
     L("if [[ -f /tmp/"), P("run_id"), L("/image_created ]]; then"),
     L("echo -e Workflow succeeded, check logs at"), L(" "), P("log_dir"),
     L("/ or "), P("gcs_log_dir"), L("/"), L("exit 0"), L("else"),
     L("echo -e Workflow failed, check logs at"), L(" "), P("log_dir"),
     L("/ or "), P("gcs_log_dir"), L("/"), L("exit 1"), L("fi"), L("}") >>

\* function main() { upload the sources; create the disk
TemplateMainDisk ==
  << L("function main() {"),
     L("declare -a sources_k=("), P("sources_map_k"), L(")"),
     L("declare -a sources_v=("), P("sources_map_v"), L(")"),
     L("for i in ${!sources_k[@]}; do gsutil cp ${sources_v[i]}"), L(" "),
     P("custom_sources_path"), L("/${sources_k[i]}"), L("done"),
     L("if [[ '"), P("base_image_family"), L("' = '' ||  '"),
     P("base_image_family"), L("' = 'None' ]]; then"),
     L("IMAGE_SOURCE="), L("--image="), P("base_image"),
     L("else"),
     L("IMAGE_SOURCE="), L("--image-family="), P("base_image_family"),
     L("fi"),
     L("gcloud compute disks create"), L(" "), P("image_name"), L("-install"),
     L(" "), L("--project="), P("project_id"), L(" "), L("--zone="), P("zone"),
     L(" "), L("${IMAGE_SOURCE}"), L(" "), L("--type=pd-ssd"), L(" "),
     L("--size="), P("disk_size"), L("GB"),
     L("touch /tmp/"), P("run_id"), L("/disk_created") >>

\* create the VM instance; wait for it; check the result; create the image }
TemplateMainVm ==
  << L("gcloud compute instances create"), L(" "), P("image_name"), L("-install"),
     L(" "), L("--project="), P("project_id"), L(" "), L("--zone="), P("zone"),
     L(" "), P("network_flag"), L(" "), P("subnetwork_flag"), L(" "),
     P("no_external_ip_flag"), L(" "), L("--machine-type="), P("machine_type"),
     L(" "), L("--disk=auto-delete=yes,boot=yes,mode=rw,name="),
     P("image_name"), L("-install"), L(" "), P("accelerator_flag"), L(" "),
     P("service_account_flag"), L(" "), L("--scopes=cloud-platform"), L(" "),
     P("metadata_flag"), L(" "),
     L("--metadata-from-file startup-script=startup_script/run.sh"),
     L("touch /tmp/"), P("run_id"), L("/vm_created"),
     L("gcloud compute instances tail-serial-port-output"), L(" "),
     P("image_name"), L("-install"), L(" "), L("--project="), P("project_id"),
     L(" "), L("--zone="), P("zone"), L(" "), L("--port=1 2>&1"),
     L("| grep 'startup-script' | tee"), L(" "), P("log_dir"),
     L("/startup-script.log"), L("|| true"),
     L("if grep 'BuildFailed:'"), L(" "), P("log_dir"),
     L("/startup-script.log"), L("; then"), L("exit 1"),
     L("elif grep 'BuildSucceeded:'"), L(" "), P("log_dir"),
     L("/startup-script.log"), L("; then"), L("else"), L("exit 1"), L("fi"),
     L("gcloud compute images create"), L(" "), P("image_name"), L(" "),
     L("--project="), P("project_id"), L(" "), L("--source-disk-zone="),
     P("zone"), L(" "), L("--source-disk="), P("image_name"), L("-install"),
     L(" "), P("storage_location_flag"), L(" "), L("--family="), P("family"),
     L("touch /tmp/"), P("run_id"), L("/image_created"), L("}") >>

\* trap exit_handler EXIT; mkdir -p {log_dir}; main "$@" 2>&1 | tee ...
TemplateTopLevel ==
  << L("trap exit_handler EXIT"),
     L("mkdir -p"), L(" "), P("log_dir"),
     L("main $@ 2>&1 | tee"), L(" "), P("log_dir"), L("/workflow.log") >>

_template ==
  TemplateExitHandler \o TemplateMainDisk \o TemplateMainVm \o TemplateTopLevel

\* the placeholders of tpl that a has no value for, in template order
MissingKeys(tpl, a) ==
  {i \in DOMAIN tpl : tpl[i].k = "ph" /\ tpl[i].v \notin DOMAIN a}

Min(S) == CHOOSE x \in S : \A y \in S : x <= y

\* tpl.format(**a) with every placeholder present: the pieces lo..hi of tpl
RECURSIVE SubstituteRange(_, _, _, _)
SubstituteRange(tpl, a, lo, hi) ==
  IF lo > hi THEN << >>
  ELSE IF lo = hi
  THEN (IF tpl[lo].k = "lit" THEN <<tpl[lo].v>> ELSE Str(a[tpl[lo].v]))
  ELSE LET mid == (lo + hi) \div 2
       IN  SubstituteRange(tpl, a, lo, mid) \o SubstituteRange(tpl, a, mid + 1, hi)

Substitute(tpl, a) == SubstituteRange(tpl, a, 1, Len(tpl))

\* Generator.generate(args): what it returns or raises, and args as it leaves it
generate(a, timestamp) ==
  LET st == _init_args(a, timestamp)
  IN  IF Raised(st)
      THEN [status |-> "raised", in |-> "_init_args", type |-> st.err.type,
            key |-> st.err.key, text |-> << >>, a |-> st.a]
      ELSE IF MissingKeys(_template, st.a) # {}
      THEN [status |-> "raised", in |-> "format", type |-> "KeyError",
            key |-> _template[Min(MissingKeys(_template, st.a))].v,
            text |-> << >>, a |-> st.a]
      ELSE [status |-> "ok", in |-> "", type |-> "", key |-> "",
            text |-> Substitute(_template, st.a), a |-> st.a]

\* if [[ '{base_image_family}' = '' || '{base_image_family}' = 'None' ]]
\* then IMAGE_SOURCE="--image={base_image}"
\* else IMAGE_SOURCE="--image-family={base_image_family}"
\* evaluated by the script on the rendered texts
ImageSource_EmptyOnly(family, image) ==
  IF family = << >>
  THEN <<"--image=">> \o image
  ELSE <<"--image-family=">> \o family

ImageSource(family, image) ==
  IF family = << >> \/ family = <<"None">>
  THEN <<"--image=">> \o image
  ELSE <<"--image-family=">> \o family

----------------------------------------------------------------------------
(* The shell reading the rendered array literals *)

\* declare -a sources_k=( ... ): bash splits the text between the parentheses
\* into words. A "'" opens or closes a quotation, inside which every token is
\* literal; outside, a "\\" makes the next token literal and a " " ends the
\* word. The result is the sequence of words; a quotation left open is a
\* syntax error, reported as the one word <<"unterminated">>.
RECURSIVE ShellWordsFrom(_, _, _, _, _, _)
ShellWordsFrom(text, i, inQuote, started, cur, words) ==
  IF i > Len(text)
  THEN IF inQuote THEN << <<"unterminated">> >>
       ELSE IF started THEN Append(words, cur) ELSE words
  ELSE IF text[i] = "'"
  THEN ShellWordsFrom(text, i + 1, ~inQuote, TRUE, cur, words)
  ELSE IF inQuote
  THEN ShellWordsFrom(text, i + 1, TRUE, TRUE, Append(cur, text[i]), words)
  ELSE IF text[i] = "\\"
  THEN IF i = Len(text) THEN << <<"unterminated">> >>
       ELSE ShellWordsFrom(text, i + 2, FALSE, TRUE, Append(cur, text[i + 1]), words)
  ELSE IF text[i] = " "
  THEN ShellWordsFrom(text, i + 1, FALSE, FALSE, << >>,
                      IF started THEN Append(words, cur) ELSE words)
  ELSE ShellWordsFrom(text, i + 1, FALSE, TRUE, Append(cur, text[i]), words)

ShellWords(text) == ShellWordsFrom(text, 1, FALSE, FALSE, << >>, << >>)

\* the word [i]=value assigns value to index i of the array
IsArrayWord(word) == Len(word) >= 3 /\ word[1] = "[" /\ word[3] = "]="

ArrayIndex(word) == word[2]

ArrayValue(word) == SubSeq(word, 4, Len(word))


----------------------------------------------------------------------------
(* SpecGen: generate applied to bounded options *)

\* the optional fields
OptionalKeys ==
  {"network", "subnetwork", "service_account", "accelerator",
   "storage_location", "metadata"}

\* the value an optional field has when it is set
OptionValue(k) ==
  CASE k = "network"          -> PyStr(<<"global/networks/n1">>)
    [] k = "subnetwork"       -> PyStr(<<"regions/r/subnetworks/s1">>)
    [] k = "service_account"  -> PyStr(<<"sa@p.iam">>)
    [] k = "accelerator"      -> PyStr(<<"type=nvidia-tesla-v100,count=1">>)
    [] k = "storage_location" -> PyStr(<<"us-east1">>)
    [] k = "metadata"         -> PyStr(<<"k1=v1">>)

\* the fields given in every options mapping
FixedOptions ==
  [image_name            |-> PyStr(<<"demo">>),
   project_id            |-> PyStr(<<"p">>),
   zone                  |-> PyStr(<<"z">>),
   gcs_bucket            |-> PyStr(<<"gs://", "b">>),
   customization_script  |-> PyStr(<<"/local/init.sh">>),
   family                |-> PyStr(<<"dataproc-custom-image">>),
   base_image            |-> PyStr(<<"projects/cloud-dataproc/global/images/d1">>),
   disk_size             |-> PyStr(<<"30">>),
   machine_type          |-> PyStr(<<"n1-standard-1">>),
   shutdown_timer_in_sec |-> PyStr(<<"300">>),
   run_id                |-> PyStr(<<"run-1">>)]

Families ==
  {PyNone, PyStr(<< >>), PyStr(<<"None">>), PyStr(<<"debian-11">>)}

\* entries a caller may put in extra_sources: a plain one, one whose key is a
\* fixed name, one with a quote in its name and a space in its path
ExtraItems ==
  { << <<"a.sh">>, PyStr(<<"gs://x/a.sh">>) >>,
    << <<"run.sh">>, PyStr(<<"other/run.sh">>) >>,
    << <<"it", "'", "s.sh">>, PyStr(<<"my", " ", "dir/it", "'", "s.sh">>) >> }

\* a dict has no two entries with one key
ExtraSources ==
  {e \in SeqsUpTo(ExtraItems, MaxExtras) :
     \A i, j \in DOMAIN e : e[i][1] = e[j][1] => i = j}

OptionKeys ==
  DOMAIN FixedOptions \cup OptionalKeys
    \cup {"no_external_ip", "base_image_family", "extra_sources"}

\* values of datetime.now().strftime("%Y%m%d-%H%M%S")
Timestamps == {"20261101-120000", "20261101-120001"}

\* the script variables while only the generator is exercised
ScriptIdle ==
  /\ pc = [r \in Runs |-> "unstarted"]
  /\ image_name = [r \in Runs |-> "img1"]
  /\ upIdx = [r \in Runs |-> 1]
  /\ fs = << >>
  /\ gcs = {}
  /\ disks = [n \in InstallNames |-> NoRun]
  /\ instances = [n \in InstallNames |-> NoRun]
  /\ images = [n \in ImageNames |-> NoRun]
  /\ mainStatus = [r \in Runs |-> -1]
  /\ exitCode = [r \in Runs |-> -1]
  /\ branch = [r \in Runs |-> "none"]
  /\ handlerRuns = [r \in Runs |-> 0]
  /\ issued = [r \in Runs |-> {}]
  /\ delFailed = [r \in Runs |-> FALSE]
  /\ synced = [r \in Runs |-> FALSE]
  /\ created = [r \in Runs |-> {}]
  /\ removed = {}
  /\ access = {}
  /\ imageCmd = [r \in Runs |-> FALSE]

\* the options mapping with the optional fields of setOpts set and the others
\* in the form unset, and the field missing left out
Options(setOpts, unset, noip, fam, extras, missing) ==
  [k \in OptionKeys \ {missing} |->
     CASE k \in OptionalKeys -> IF k \in setOpts THEN OptionValue(k) ELSE unset
       [] k = "no_external_ip"    -> PyBool(noip)
       [] k = "base_image_family" -> fam
       [] k = "extra_sources"     -> PyDict(extras)
       [] OTHER                   -> FixedOptions[k]]

\* The caller's options: every optional field either set, or unset in one of
\* the forms None / ''. Either the mapping has every field, or one field is
\* left out of it and the optional fields are all set or all unset.
InitGen ==
  /\ ScriptIdle
  /\ \E unset \in {PyNone, PyStr(<< >>)}, noip \in BOOLEAN, fam \in Families,
        extras \in ExtraSources :
       \/ \E setOpts \in SUBSET OptionalKeys :
            args = Options(setOpts, unset, noip, fam, extras, "-")
       \/ \E setOpts \in {{}, OptionalKeys}, missing \in OptionKeys :
            args = Options(setOpts, unset, noip, fam, extras, missing)
  /\ result = NoResult
  /\ image_source = << >>
  /\ options = args
  /\ history = << >>

\* script = Generator().generate(args): the caller hands over the mapping
\* an earlier call filled in, or a fresh copy of its options
Generate ==
  /\ Len(history) < MaxCalls
  /\ \E timestamp \in Timestamps, from \in {"same mapping", "fresh copy"} :
     \E g \in {generate(IF from = "fresh copy" THEN options ELSE args, timestamp)} :
     \E r \in {[status |-> g.status, in |-> g.in, type |-> g.type,
                key |-> g.key, text |-> g.text]} :
       /\ args' = g.a
       /\ result' = r
       /\ history' = Append(history, [a |-> g.a, result |-> r])
  /\ UNCHANGED <<image_source, options, scriptVars>>

\* the rendered script evaluates its IMAGE_SOURCE selection
SelectImageSource ==
  /\ result.status = "ok"
  /\ image_source = << >>
  /\ image_source' = ImageSource(Str(args["base_image_family"]),
                                 Str(args["base_image"]))
  /\ UNCHANGED <<args, result, options, history, scriptVars>>

NextGen == Generate \/ SelectImageSource

SpecGen == InitGen /\ [][NextGen]_vars

----------------------------------------------------------------------------
(* SpecQuote: generate applied to sources of arbitrary names and paths *)

\* the characters of a source name or path: quote, space, backslash, letter
Alphabet == {"'", " ", "\\", "a"}

QuoteStrings == SeqsUpTo(Alphabet, MaxStrLen)

\* The caller's options carry one extra source, its name and its path being
\* any strings over Alphabet; every other field is set.
InitQuote ==
  /\ ScriptIdle
  /\ \E name \in QuoteStrings, path \in QuoteStrings :
       args = Options(OptionalKeys, PyNone, FALSE, PyStr(<<"debian-11">>),
                      << <<name, PyStr(path)>> >>, "-")
  /\ result = NoResult
  /\ image_source = << >>
  /\ options = args
  /\ history = << >>

SpecQuote == InitQuote /\ [][NextGen]_vars

----------------------------------------------------------------------------
(* Claims about the generated script *)

Done(r) == pc[r] = "done"

\* C1: in every execution of the script, whichever step fails or succeeds,
\* exit_handler is eventually executed, and from then on it has been
\* executed exactly once.
C1_HandlerExactlyOnce == <>[](\A r \in Runs : handlerRuns[r] = 1)

\* one script ended in success and the other after a failed result check,
\* each having run exit_handler
C1_Witness ==
  \E r1, r2 \in Runs :
    /\ Done(r1) /\ mainStatus[r1] = 0 /\ handlerRuns[r1] = 1
    /\ Done(r2) /\ mainStatus[r2] = 1 /\ handlerRuns[r2] = 1
    /\ Exists(TmpPath(r2, "vm_created"))

\* C2: the script's exit code is 0 if the image_created marker exists when
\* cleanup runs and 1 otherwise, on every path, including those where a
\* command of exit_handler fails.
C2_ExitCodeFromMarker ==
  \A r \in Runs :
    Done(r) => exitCode[r] = (IF Exists(TmpPath(r, "image_created")) THEN 0 ELSE 1)

InHandlerAfterDelete(r) == pc[r] \in {"h_sync", "h_exit", "done"}

\* C3: cleanup selects its deletion by marker priority: with vm_created it
\* issues the instance deletion and never the disk deletion; otherwise with
\* disk_created it issues the disk deletion and never the instance deletion;
\* with neither marker it issues no deletion. Nothing is deleted before cleanup.
C3_CleanupByMarkerPriority ==
  \A r \in Runs :
    IF InHandlerAfterDelete(r)
    THEN issued[r] =
           (IF Exists(TmpPath(r, "vm_created")) THEN {"instances delete"}
            ELSE IF Exists(TmpPath(r, "disk_created")) THEN {"disks delete"}
            ELSE {})
    ELSE issued[r] = {}

\* only disk_created is present and cleanup issued the disk deletion
C3_Witness ==
  \E r \in Runs :
    /\ Done(r)
    /\ Exists(TmpPath(r, "disk_created"))
    /\ ~Exists(TmpPath(r, "vm_created"))
    /\ issued[r] = {"disks delete"}

\* C4: in every execution, cleanup invokes the log sync, whichever markers
\* exist and whether or not the preceding deletion command succeeded.
C4_LogSyncUnconditional ==
  \A r \in Runs : Done(r) => synced[r]

LogHas(r, field) ==
  /\ Exists(LogPath(r, "startup-script.log"))
  /\ \E i \in DOMAIN fs[LogPath(r, "startup-script.log")] :
       fs[LogPath(r, "startup-script.log")][i][field]

ResultChecked(r) ==
  Exists(LogPath(r, "startup-script.log")) /\ pc[r] # "check"

\* C5: the result check lets the script proceed only when the captured log
\* contains 'BuildSucceeded:' and no 'BuildFailed:'; a log with 'BuildFailed:'
\* (even with 'BuildSucceeded:') or with neither ends main in failure, the
\* image-creation command is never invoked and image_created never written.
C5_ResultDetection ==
  \A r \in Runs :
    /\ (pc[r] \in {"image_create", "touch_image"} \/ imageCmd[r]
          \/ Exists(TmpPath(r, "image_created")))
         => (LogHas(r, "succeeded") /\ ~LogHas(r, "failed"))
    /\ (ResultChecked(r) /\ (LogHas(r, "failed") \/ ~LogHas(r, "succeeded")))
         => /\ mainStatus[r] = 1
            /\ ~imageCmd[r]
            /\ ~Exists(TmpPath(r, "image_created"))

\* a log with both sentinels was checked, and the script ended in failure
C5_Witness ==
  \E r \in Runs :
    /\ Done(r)
    /\ LogHas(r, "failed") /\ LogHas(r, "succeeded")
    /\ exitCode[r] = 1 /\ ~imageCmd[r]

\* C6: once the script has exited with its delete commands succeeding, no
\* installation disk or VM created by the run remains, and the run's cleanup
\* removed nothing the run did not create.
C6_NoLeakNoForeignDelete ==
  \A r \in Runs :
    (Done(r) /\ ~delFailed[r]) =>
      /\ \A n \in InstallNames : disks[n] # r /\ instances[n] # r
      /\ \A x \in removed : x.by = r => x.owner = r

\* a run whose VM creation failed has exited, and its cleanup removed its disk
C6_Witness ==
  \E r \in Runs :
    /\ Done(r) /\ ~delFailed[r]
    /\ created[r] = {"disk"}
    /\ [by |-> r, kind |-> "disk", owner |-> r] \in removed

\* C7: scripts with distinct run_id do not collide: no marker, log or bucket
\* path is read or written by two runs, and no run's cleanup removes a disk
\* or VM another run created, under every interleaving.
C7_NoCollision ==
  /\ \A a1, a2 \in access : a1[2] = a2[2] => a1[1] = a2[1]
  /\ \A x \in removed : x.owner = x.by

\* both runs use one image_name; one created and cleaned up the resources, the
\* other was rejected at disk creation and cleaned up nothing
C7_Witness ==
  \E r1, r2 \in Runs :
    /\ r1 # r2 /\ image_name[r1] = image_name[r2]
    /\ Done(r1) /\ Done(r2)
    /\ [by |-> r1, kind |-> "vm", owner |-> r1] \in removed
    /\ upIdx[r2] > Len(SourceKeys) /\ created[r2] = {} /\ issued[r2] = {}

----------------------------------------------------------------------------
(* Claims about the generator *)

Called == result.status # "none"

\* _init_args ran to its end (generate returned, or raised while rendering)
Resolved ==
  result.status = "ok" \/ (result.status = "raised" /\ result.in = "format")

\* an optional field is left out, None or ''
OptionAbsent(k) ==
  k \notin DOMAIN args \/ args[k] \in {PyNone, PyStr(<< >>), PyBool(FALSE)}

FlagIsEmpty(flag) == flag \in DOMAIN args /\ args[flag] = PyStr(<< >>)

FlagNonEmpty(flag) == flag \in DOMAIN args /\ args[flag].s # << >>

FlagOptions ==
  {"network", "subnetwork", "service_account", "accelerator",
   "storage_location", "no_external_ip"}

FlagName(k) ==
  CASE k = "network"          -> "network_flag"
    [] k = "subnetwork"       -> "subnetwork_flag"
    [] k = "service_account"  -> "service_account_flag"
    [] k = "accelerator"      -> "accelerator_flag"
    [] k = "storage_location" -> "storage_location_flag"
    [] k = "no_external_ip"   -> "no_external_ip_flag"

\* C8: with every required field present, generate succeeds whichever
\* optional fields are absent or empty, and the flag of each absent option
\* is the empty string (no flag carries the text 'None').
C8_OptionalAbsentNeverRaises ==
  (Called /\ (OptionKeys \ OptionalKeys) \subseteq DOMAIN args) =>
    /\ result.status = "ok"
    /\ \A k \in FlagOptions : OptionAbsent(k) => FlagIsEmpty(FlagName(k))
    /\ OptionAbsent("metadata") => ~HasToken(args["metadata_flag"].s, "None")

\* C9: after resolution at most one of network_flag and subnetwork_flag is
\* non-empty: with subnetwork set, subnetwork_flag is '--subnet=<subnetwork>'
\* and network_flag is empty even when network is set too; with only network
\* set, network_flag is '--network=<network>' and subnetwork_flag is empty.
C9_NetworkFlagsExclusive ==
  Resolved =>
    /\ ~(FlagNonEmpty("network_flag") /\ FlagNonEmpty("subnetwork_flag"))
    /\ ~OptionAbsent("subnetwork") =>
         /\ "subnetwork_flag" \in DOMAIN args
         /\ args["subnetwork_flag"].s = <<"--subnet=">> \o args["subnetwork"].s
         /\ FlagIsEmpty("network_flag")
    /\ (OptionAbsent("subnetwork") /\ ~OptionAbsent("network")) =>
         /\ "network_flag" \in DOMAIN args
         /\ args["network_flag"].s = <<"--network=">> \o args["network"].s
         /\ FlagIsEmpty("subnetwork_flag")

\* network and subnetwork are both set, and resolution has run
C9_Witness ==
  /\ Resolved
  /\ ~OptionAbsent("subnetwork") /\ ~OptionAbsent("network")
  /\ FlagNonEmpty("subnetwork_flag") /\ FlagIsEmpty("network_flag")

\* base_image_family is set: a string, non-empty and not the literal 'None'
FamilySet ==
  /\ args["base_image_family"].t = "str"
  /\ args["base_image_family"].s \notin {<< >>, <<"None">>}

\* the disk source the script selects follows base_image_family when set
\* (even when base_image is set too) and base_image otherwise
DiskSourceSelected ==
  image_source # << >> =>
    IF FamilySet
    THEN /\ image_source = <<"--image-family=">> \o args["base_image_family"].s
         /\ ~HasToken(image_source, "--image=")
    ELSE /\ image_source = <<"--image=">> \o Str(args["base_image"])
         /\ ~HasToken(image_source, "--image-family=")

RenderedForDebian11 ==
  result.status = "ok" /\ args["base_image_family"] = PyStr(<<"debian-11">>)

\* C10 (as stated): the disk source follows base_image_family when set and
\* base_image otherwise; for base_image_family='debian-11' the rendered output
\* contains '--image-family=debian-11' and contains no '--image=' flag.
C10_RenderedHasNoImageFlag ==
  /\ DiskSourceSelected
  /\ RenderedForDebian11 =>
       /\ Contains(result.text, <<"--image-family=", "debian-11">>)
       /\ ~HasToken(result.text, "--image=")

\* C10 (amended): the disk source the script selects when it runs follows
\* base_image_family when set and base_image otherwise; for
\* base_image_family='debian-11' the rendered output contains
\* '--image-family=debian-11', next to the '--image=<base_image>' assignment
\* of the branch the script does not take.
C10_DiskSourceSelectedAtRunTime ==
  /\ DiskSourceSelected
  /\ RenderedForDebian11 =>
       /\ Contains(result.text, <<"--image-family=", "debian-11">>)
       /\ Contains(result.text, <<"--image=">> \o Str(args["base_image"]))

\* base_image and base_image_family='debian-11' are both set, and the script
\* selected the family
C10_Witness ==
  /\ RenderedForDebian11
  /\ Truthy(args["base_image"])
  /\ image_source = <<"--image-family=", "debian-11">>

\* the two array literals are in the mapping
SourcesResolved ==
  "sources_map_k" \in DOMAIN args /\ "sources_map_v" \in DOMAIN args

KeyWords == ShellWords(args["sources_map_k"].s)

ValueWords == ShellWords(args["sources_map_v"].s)

FixedNames == {<<"run.sh">>, <<"init_actions.sh">>}

GivenExtras == args["extra_sources"].s

\* the extras whose key is not a fixed name
NewExtras == {j \in DOMAIN GivenExtras : GivenExtras[j][1] \notin FixedNames}

\* position in the arrays (counted from 1) of the new extra j
ExtraPosition(j) == 2 + Cardinality({i \in NewExtras : i <= j})

\* the value the arrays hold for a fixed name: the extra of that key if there
\* is one, the fixed source otherwise
FixedValue(name, default) ==
  IF \E j \in DOMAIN GivenExtras : GivenExtras[j][1] = name
  THEN GivenExtras[CHOOSE j \in DOMAIN GivenExtras : GivenExtras[j][1] = name][2].s
  ELSE default

\* C11: sources_map_k and sources_map_v are index-aligned: same length, the
\* same indices 0, 1, ... in order, run.sh and init_actions.sh at indices 0
\* and 1, the extras after them in the caller's order, each value at the
\* index of its key; an extra whose key is a fixed name replaces that
\* entry's value and adds no entry.
C11_SourcesIndexAligned ==
  SourcesResolved =>
    /\ Len(KeyWords) = 2 + Cardinality(NewExtras)
    /\ Len(ValueWords) = Len(KeyWords)
    /\ \A i \in DOMAIN KeyWords :
         /\ IsArrayWord(KeyWords[i]) /\ IsArrayWord(ValueWords[i])
         /\ ArrayIndex(KeyWords[i]) = ToString(i - 1)
         /\ ArrayIndex(ValueWords[i]) = ToString(i - 1)
    /\ ArrayValue(KeyWords[1]) = <<"run.sh">>
    /\ ArrayValue(KeyWords[2]) = <<"init_actions.sh">>
    /\ ArrayValue(ValueWords[1]) = FixedValue(<<"run.sh">>, <<"startup_script/run.sh">>)
    /\ ArrayValue(ValueWords[2]) =
         FixedValue(<<"init_actions.sh">>, args["customization_script"].s)
    /\ \A j \in NewExtras :
         /\ ArrayValue(KeyWords[ExtraPosition(j)]) = GivenExtras[j][1]
         /\ ArrayValue(ValueWords[ExtraPosition(j)]) = GivenExtras[j][2].s

\* the one extra a.sh sits at index 2 of arrays of length 3
C11_WitnessOneExtra ==
  /\ SourcesResolved
  /\ Len(GivenExtras) = 1 /\ GivenExtras[1][1] = <<"a.sh">>
  /\ Len(KeyWords) = 3
  /\ ArrayValue(KeyWords[3]) = <<"a.sh">>
  /\ ArrayValue(ValueWords[3]) = <<"gs://x/a.sh">>

\* C12: every source key and value is rendered into its single-quoted array
\* element with each single quote replaced by '\'' , so that the shell,
\* reading the element, finds no unescaped quote and yields exactly the
\* original string, for every string over quotes, spaces and backslashes.
C12_QuoteRoundTrip ==
  SourcesResolved =>
    /\ <<"unterminated">> \notin {KeyWords[i] : i \in DOMAIN KeyWords}
    /\ <<"unterminated">> \notin {ValueWords[i] : i \in DOMAIN ValueWords}
    /\ Len(KeyWords) = 2 + Len(GivenExtras)
    /\ Len(ValueWords) = 2 + Len(GivenExtras)
    /\ \A j \in DOMAIN GivenExtras :
         /\ KeyWords[2 + j] = <<"[", ToString(1 + j), "]=">> \o GivenExtras[j][1]
         /\ ValueWords[2 + j] = <<"[", ToString(1 + j), "]=">> \o GivenExtras[j][2].s

\* a name with a backslash before a quote and a path with a quote after a
\* space were rendered
C12_Witness ==
  /\ SourcesResolved
  /\ Len(GivenExtras) = 1
  /\ GivenExtras[1][1] = <<"\\", "'">>
  /\ GivenExtras[1][2].s = <<" ", "'">>
  /\ KeyWords[3] = <<"[", "2", "]=", "\\", "'">>

\* the fields every script needs
RequiredFields ==
  {"image_name", "project_id", "zone", "gcs_bucket", "customization_script"}

\* C13: if a required field is absent from the options, generate fails with
\* an error that names the missing field and returns no script text.
C13_MissingRequiredField ==
  Called =>
    \A m \in RequiredFields :
      m \notin DOMAIN args =>
        /\ result.status = "raised"
        /\ result.type = "KeyError"
        /\ result.key = m
        /\ result.text = << >>

\* generate was called without zone, which only the template refers to
C13_Witness ==
  /\ Called
  /\ "zone" \notin DOMAIN args
  /\ result.status = "raised" /\ result.in = "format" /\ result.key = "zone"

\* C14: with run_id supplied explicitly, resolution is repeatable: resolving
\* the same options again, be it a fresh copy or the mapping an earlier
\* resolution filled in, yields the same resolved parameters and the same
\* rendered script (or the same error).
C14_ResolutionRepeatable ==
  "run_id" \in DOMAIN options =>
    \A i, j \in DOMAIN history :
      /\ history[i].a = history[j].a
      /\ history[i].result = history[j].result

\* with an explicit run_id, options that a first resolution filled in (the
\* mapping now holds derived fields) were resolved a second time
C14_Witness ==
  /\ "run_id" \in DOMAIN options
  /\ Len(history) = 2
  /\ history[1].result.status = "ok"
  /\ "log_dir" \in DOMAIN history[1].a /\ "log_dir" \notin DOMAIN options
  /\ history[2].result.text = history[1].result.text

\* the instance-creation command of run r is about to be, or has been, invoked
AtOrPastVmCreate(r) ==
  \/ pc[r] \in {"vm_create", "touch_vm", "tail", "check", "image_create",
                "touch_image"}
  \/ "vm" \in created[r]

\* main of run r ended inside the upload loop
UploadFailed(r) == mainStatus[r] # -1 /\ upIdx[r] <= Len(SourceKeys)

\* C15: every declared source is in the custom sources path before the
\* instance-creation command is invoked; if an upload fails, neither the disk
\* nor the VM is created and the run ends in failure.
C15_UploadBeforeVm ==
  \A r \in Runs :
    /\ AtOrPastVmCreate(r) =>
         \A i \in DOMAIN SourceKeys : SourcesPath(r, SourceKeys[i]) \in gcs
    /\ UploadFailed(r) =>
         /\ created[r] = {}
         /\ mainStatus[r] # 0
         /\ Done(r) => exitCode[r] # 0

\* one run reached the tail with its sources uploaded; the other ended after
\* its second upload failed
C15_Witness ==
  \E r1, r2 \in Runs :
    /\ pc[r1] = "tail" /\ SourcesPath(r1, "init_actions.sh") \in gcs
    /\ Done(r2) /\ UploadFailed(r2) /\ upIdx[r2] = 2 /\ exitCode[r2] = 1

\* the marker file <name> of run r exists
Marker(r, name) == Exists(TmpPath(r, name))

MarkersOrdered ==
  \A r \in Runs :
    /\ Marker(r, "disk_created") => "disk" \in created[r]
    /\ Marker(r, "vm_created") => "vm" \in created[r]
    /\ Marker(r, "image_created") => "image" \in created[r]
    /\ Marker(r, "vm_created") => Marker(r, "disk_created")
    /\ Marker(r, "image_created") => Marker(r, "vm_created")

MarkersKept == \A p \in DOMAIN fs : p \in DOMAIN fs'

\* C16: in an execution that starts with no marker files, a marker exists
\* only after the creation command of its step succeeded, vm_created implies
\* disk_created, image_created implies vm_created, and no step removes a file
\* under /tmp/<run_id>/.
C16_MarkersMonotone == [](MarkersOrdered) /\ [][MarkersKept]_vars

\* a run finished with its three markers written, its cleanup done
C16_Witness ==
  \E r \in Runs :
    /\ Done(r)
    /\ Marker(r, "disk_created") /\ Marker(r, "vm_created")
    /\ Marker(r, "image_created")
    /\ created[r] = {"disk", "vm", "image"}

----------------------------------------------------------------------------
(* The generated script under interrupts *)

\* positions of main between two of its commands
MainPositions ==
  {"upload", "disk_create", "touch_disk", "vm_create", "touch_vm", "tail",
   "check", "image_create", "touch_image"}

\* a signal ends the script between two commands, with the signal mapped to
\* the EXIT trap: main's subshell ends with the signal's status and the
\* pipeline of the top level ends the shell; before main, the shell itself exits
Interrupt(r) ==
  /\ \/ /\ pc[r] \in MainPositions
        /\ MainExit(r, 130)
        /\ UNCHANGED exitCode
     \/ /\ pc[r] = "mkdir"
        /\ ShellExit(r, 130)
        /\ UNCHANGED mainStatus
  /\ UNCHANGED <<image_name, upIdx, fs, gcs, disks, instances, images, branch,
                 handlerRuns, issued, delFailed, synced, created, removed,
                 access, imageCmd, genVars>>

NextInterrupt == Next \/ \E r \in Runs : Interrupt(r)

SpecInterrupt == Init /\ [][NextInterrupt]_vars

\* run r owns an installation disk / an installation VM
OwnsDisk(r) == \E n \in InstallNames : disks[n] = r

OwnsVm(r) == \E n \in InstallNames : instances[n] = r

\* C17: when the script may be made to exit between any two commands, a disk
\* created by the run exists only if disk_created exists, a VM created by the
\* run exists only if vm_created exists, and a run whose cleanup commands did
\* not fail ends with none of its resources left.
C17_InterruptLeavesNothing ==
  \A r \in Runs :
    /\ OwnsDisk(r) => Marker(r, "disk_created")
    /\ OwnsVm(r) => Marker(r, "vm_created")
    /\ (Done(r) /\ ~delFailed[r]) => ~OwnsDisk(r) /\ ~OwnsVm(r)

----------------------------------------------------------------------------
(* The generated script executed again *)

\* the same generated script (same run_id, same image_name) is started again
\* after an execution has ended: the shell starts afresh, the files under
\* /tmp/{run_id}/, the bucket and the cloud resources are as they were left
Rerun(r) ==
  /\ pc[r] = "done"
  /\ pc' = Set(pc, r, "mkdir")
  /\ upIdx' = Set(upIdx, r, 1)
  /\ mainStatus' = Set(mainStatus, r, -1)
  /\ exitCode' = Set(exitCode, r, -1)
  /\ branch' = Set(branch, r, "none")
  /\ handlerRuns' = Set(handlerRuns, r, 0)
  /\ issued' = Set(issued, r, {})
  /\ delFailed' = Set(delFailed, r, FALSE)
  /\ synced' = Set(synced, r, FALSE)
  /\ created' = Set(created, r, {})
  /\ imageCmd' = Set(imageCmd, r, FALSE)
  /\ UNCHANGED <<image_name, fs, gcs, disks, instances, images, removed,
                 access, genVars>>

NextRerun == Next \/ \E r \in Runs : Rerun(r)

\* one generated script is started, on a machine and a project where no
\* execution has left anything yet; no other script runs beside it
InitRerun ==
  /\ \E r \in Runs : pc = [x \in Runs |-> IF x = r THEN "mkdir" ELSE "unstarted"]
  /\ image_name \in [Runs -> ImageNames]
  /\ upIdx = [r \in Runs |-> 1]
  /\ fs = << >>
  /\ gcs = {}
  /\ disks = [n \in InstallNames |-> NoRun]
  /\ instances = [n \in InstallNames |-> NoRun]
  /\ images = [n \in ImageNames |-> NoRun]
  /\ mainStatus = [r \in Runs |-> -1]
  /\ exitCode = [r \in Runs |-> -1]
  /\ branch = [r \in Runs |-> "none"]
  /\ handlerRuns = [r \in Runs |-> 0]
  /\ issued = [r \in Runs |-> {}]
  /\ delFailed = [r \in Runs |-> FALSE]
  /\ synced = [r \in Runs |-> FALSE]
  /\ created = [r \in Runs |-> {}]
  /\ removed = {}
  /\ access = {}
  /\ imageCmd = [r \in Runs |-> FALSE]
  /\ GenIdle

SpecRerun == InitRerun /\ [][NextRerun]_vars

\* the cleanup choice that fits the steps the current execution completed
ChoiceByCreated(r) ==
  IF "vm" \in created[r] THEN "instance"
  ELSE IF "disk" \in created[r] THEN "disk" ELSE "none"

\* C18: when the script is executed again with the same run_id, the cleanup
\* choice and the exit code of an execution depend only on the steps that
\* execution completed: its cleanup chooses the deletion that fits what it
\* created, and exit code 0 implies that it created the image.
C18_RerunIgnoresOldMarkers ==
  \A r \in Runs :
    /\ handlerRuns[r] = 1 => branch[r] = ChoiceByCreated(r)
    /\ (Done(r) /\ exitCode[r] = 0) => "image" \in created[r]

====
